---------------------------- MODULE Spec2Model ----------------------------
(***************************************************************************)
(* A model of fmu.ensemble's EnsembleCombination (ensemblecombination.py)  *)
(* and EnsembleSet (ensembleset.py).                                       *)
(*                                                                         *)
(* Part I models one EnsembleCombination object over a small universe of   *)
(* ensembles: its constructor, find_combined, the + and - operators and    *)
(* from_smry, with pandas' label-aligned frame arithmetic.                 *)
(* Part II models one EnsembleSet object: its constructor, add_ensemble,   *)
(* add_ensembles_frompath, get_smry_dates and the three aggregations.      *)
(***************************************************************************)
EXTENDS Integers, Sequences, FiniteSets, TLC

VARIABLES
    \* ---- the ensembles a combination works on (provider state)
    reals,      \* reals[e]: the realization indices ensemble e holds
    ok,         \* ok[e]: the realizations of e whose OK flag is True
    \* ---- the EnsembleCombination object
    pc,         \* "new" before __init__ has run, "built" after
    ref,        \* self.ref
    adds,       \* self.adds
    subs,       \* self.subs
    combined,   \* self.combined
    result,     \* what the last call on the object returned
    last,       \* the last call made on the object and its argument
    nops,       \* number of state-changing calls made since construction
    \* ---- history of the construction, for the claims about it
    combined0,  \* self.combined as __init__ left it
    ok0,        \* the reference's OK set when __init__ ran
    args0,      \* the (ref, adds, subs) arguments given to __init__
    \* ---- the EnsembleSet object
    spc,        \* "new" before EnsembleSet.__init__ has run, "built" after
    ensembles,  \* self._ensembles: name -> ensemble (its member paths)
    sresult,    \* what the last EnsembleSet call returned or raised
    slast,      \* the last EnsembleSet call and its argument
    snops       \* number of EnsembleSet calls made so far

combVars == <<reals, ok, pc, ref, adds, subs, combined, result, last, nops,
              combined0, ok0, args0>>
setVars == <<spc, ensembles, sresult, slast, snops>>
vars == <<reals, ok, pc, ref, adds, subs, combined, result, last, nops,
          combined0, ok0, args0, spc, ensembles, sresult, slast, snops>>

(***************************************************************************)
(* Bounds of the model.                                                    *)
(***************************************************************************)
\* calls that change state (+, -, a status change) explored after construction
MaxOps == 2
\* EnsembleSet calls explored after construction
MaxSetOps == 2

(***************************************************************************)
(* Part I.  EnsembleCombination                                            *)
(***************************************************************************)

\* Python's None
None == "None"

\* The ensembles a combination can be built from.
Ens == {"e1", "e2"}

\* Realization indices.
Reals == {0, 1}

\* The summary vectors every ensemble holds.
Cols == {"FOPR", "FOPT"}

\* A cell of a DataFrame: a number, or NaN.
Num(v) == [nan |-> FALSE, v |-> v]
NaN == [nan |-> TRUE, v |-> 0]

\* Elementwise float arithmetic: NaN is absorbing.
CellSub(x, y) == IF x.nan \/ y.nan THEN NaN ELSE Num(x.v - y.v)
CellAdd(x, y) == IF x.nan \/ y.nan THEN NaN ELSE Num(x.v + y.v)

\* A set of integers as the increasing sequence of its elements.
SortedSeq(S) ==
    CHOOSE s \in [1..Cardinality(S) -> S] :
        \A i, j \in 1..Cardinality(S) : i < j => s[i] < s[j]

\* Ensemble.get_ok(): one row [REAL, OK] per realization of e.
get_ok(e) == {[REAL |-> r, OK |-> (r \in ok[e])] : r \in reals[e]}

\* set(X.get_ok().query('OK == True')['REAL'].tolist())
OkReals(e) == {row.REAL : row \in {x \in get_ok(e) : x.OK}}

\* Ensemble.get_smry_dates(freq='daily'): the ensemble's daily time index.
EnsDailyDates(e) == <<1, 2>>

\* The value ensemble e holds for realization r, date d and vector c.
EnsBase(e) == IF e = "e1" THEN 100 ELSE 20
SmryValue(e, r, d, c) ==
    EnsBase(e) * (r + 1) + d + (IF c = "FOPT" THEN 0 ELSE 7)

\* column_keys: <<>> stands for None (every vector), else the keys listed.
SelectedCols(column_keys) ==
    IF column_keys = <<>> THEN Cols
    ELSE {column_keys[i] : i \in DOMAIN column_keys} \cap Cols

\* Ensemble.from_smry(time_index, column_keys, stacked=True): one row per
\* (realization, date), realizations in increasing order, labelled 0..n-1.
\* A row maps DATE, REAL and each selected vector to a cell.
EnsFromSmry(e, time_index, column_keys) ==
    LET rs == SortedSeq(reals[e])
        nd == Len(time_index)
        n  == Len(rs) * nd
    IN [i \in 0..(n - 1) |->
          LET r == rs[(i \div nd) + 1]
              d == time_index[(i % nd) + 1]
          IN [c \in {"DATE", "REAL"} \cup SelectedCols(column_keys) |->
                CASE c = "DATE" -> Num(d)
                  [] c = "REAL" -> Num(r)
                  [] OTHER -> Num(SmryValue(e, r, d, c))]]

\* frame[frame['REAL'].isin(keep)]: the rows kept keep their labels.
FilterReal(frame, keep) ==
    LET idx == {i \in DOMAIN frame : frame[i]["REAL"].v \in keep}
    IN [i \in idx |-> frame[i]]

\* frame.drop(columns=[col])
DropColumn(frame, col) ==
    [i \in DOMAIN frame |->
        [c \in (DOMAIN frame[i]) \ {col} |-> frame[i][c]]]

\* frame[col]: a Series, label -> cell
Column(frame, col) == [i \in DOMAIN frame |-> frame[i][col]]

\* a - b and a + b on DataFrames with the same columns: rows are aligned on
\* their labels; a label missing on either side gives a row of NaN.
FrameColumns(a, b, fallback) ==
    IF DOMAIN a # {} THEN DOMAIN a[CHOOSE i \in DOMAIN a : TRUE]
    ELSE IF DOMAIN b # {} THEN DOMAIN b[CHOOSE i \in DOMAIN b : TRUE]
    ELSE fallback

FrameSub(a, b) ==
    LET cs == FrameColumns(a, b, {})
    IN [i \in (DOMAIN a) \cup (DOMAIN b) |->
          [c \in cs |-> IF i \in DOMAIN a /\ i \in DOMAIN b
                        THEN CellSub(a[i][c], b[i][c]) ELSE NaN]]

FrameAdd(a, b) ==
    LET cs == FrameColumns(a, b, {})
    IN [i \in (DOMAIN a) \cup (DOMAIN b) |->
          [c \in cs |-> IF i \in DOMAIN a /\ i \in DOMAIN b
                        THEN CellAdd(a[i][c], b[i][c]) ELSE NaN]]

\* frame[col] = series / frame.insert(0, col, series): the series is aligned
\* on the frame's labels; a label the series lacks gets NaN.
SetColumn(frame, col, series) ==
    [i \in DOMAIN frame |->
        [c \in (DOMAIN frame[i]) \cup {col} |->
            IF c = col
            THEN (IF i \in DOMAIN series THEN series[i] ELSE NaN)
            ELSE frame[i][c]]]

\* find_combined: the reference's OK realizations, intersected in turn with
\* those of every ensemble of self.subs + self.adds.
RECURSIVE IntersectOk(_, _)
IntersectOk(ref_ok, operations) ==
    IF operations = <<>> THEN ref_ok
    ELSE IntersectOk(ref_ok \cap OkReals(Head(operations)), Tail(operations))

\* find_combined reading only self.subs
find_combined_subs_only(r, a, s) == IntersectOk(OkReals(r), s)

\* find_combined whose loop overwrites ref_ok instead of intersecting it
find_combined_overwrite(r, a, s) ==
    IF s \o a = <<>> THEN OkReals(r)
    ELSE OkReals((s \o a)[Len(s \o a)])

find_combined(r, a, s) == IntersectOk(OkReals(r), s \o a)

\* The loop over self.subs with the operands swapped: ref = ref - ior
RECURSIVE FoldSubsSwapped(_, _, _, _, _)
FoldSubsSwapped(acc, list, time_index, column_keys, keep) ==
    IF list = <<>> THEN acc
    ELSE LET ior == FilterReal(DropColumn(EnsFromSmry(Head(list), time_index,
                                                      column_keys), "DATE"),
                               keep)
         IN FoldSubsSwapped(FrameSub(acc, ior), Tail(list), time_index,
                            column_keys, keep)

\* The loop over self.subs: ref = ior - ref
RECURSIVE FoldSubs(_, _, _, _, _)
FoldSubs(acc, list, time_index, column_keys, keep) ==
    IF list = <<>> THEN acc
    ELSE LET ior == FilterReal(DropColumn(EnsFromSmry(Head(list), time_index,
                                                      column_keys), "DATE"),
                               keep)
         IN FoldSubs(FrameSub(ior, acc), Tail(list), time_index,
                     column_keys, keep)

\* The loop over self.adds: ref = ior + ref
RECURSIVE FoldAdds(_, _, _, _, _)
FoldAdds(acc, list, time_index, column_keys, keep) ==
    IF list = <<>> THEN acc
    ELSE LET ior == FilterReal(DropColumn(EnsFromSmry(Head(list), time_index,
                                                      column_keys), "DATE"),
                               keep)
         IN FoldAdds(FrameAdd(ior, acc), Tail(list), time_index,
                     column_keys, keep)

\* EnsembleCombination.from_smry(column_keys): the frame it returns.
from_smry(column_keys) ==
    LET time_index == EnsDailyDates(ref)
        ref1  == FilterReal(EnsFromSmry(ref, time_index, column_keys), combined)
        dates == Column(ref1, "DATE")
        real  == Column(ref1, "REAL")
        ref2  == DropColumn(ref1, "DATE")
        ref3  == FoldSubs(ref2, subs, time_index, column_keys, combined)
        ref4  == FoldAdds(ref3, adds, time_index, column_keys, combined)
    IN SetColumn(SetColumn(ref4, "DATE", dates), "REAL", real)

NoResult == [kind |-> "none", column_keys |-> <<>>, frame |-> <<>>]
\* __sub__ and __add__ end in "return self"
Self == [kind |-> "self", column_keys |-> <<>>, frame |-> <<>>]
NoCall == [op |-> "none", arg |-> None]

\* The argument of a call is truthy: None is not, an ensemble object is.
Truthy(x) == x # None

\* __init__(ref, adds=None, subs=None)
Construct(r, a, s) ==
    /\ pc = "new"
    /\ pc' = "built"
    /\ ref' = r
    /\ adds' = IF Truthy(a) THEN <<a>> ELSE <<>>
    /\ subs' = IF Truthy(s) THEN <<s>> ELSE <<>>
    /\ combined' = find_combined(r, adds', subs')
    /\ combined0' = combined'
    /\ ok0' = ok[r]
    /\ args0' = [ref |-> r, adds |-> a, subs |-> s]
    /\ result' = Self
    /\ last' = [op |-> "init", arg |-> r]
    /\ UNCHANGED <<reals, ok, nops>>
    /\ UNCHANGED setVars

\* __sub__ that refreshes self.combined after appending
SubRecompute(other) ==
    /\ pc = "built"
    /\ nops < MaxOps
    /\ subs' = Append(subs, other)
    /\ combined' = find_combined(ref, adds, subs')
    /\ nops' = nops + 1
    /\ result' = Self
    /\ last' = [op |-> "sub", arg |-> other]
    /\ UNCHANGED <<reals, ok, pc, ref, adds, combined0, ok0, args0>>
    /\ UNCHANGED setVars

\* __sub__(other)
Sub(other) ==
    /\ pc = "built"
    /\ nops < MaxOps
    /\ subs' = Append(subs, other)
    /\ nops' = nops + 1
    /\ result' = Self
    /\ last' = [op |-> "sub", arg |-> other]
    /\ UNCHANGED <<reals, ok, pc, ref, adds, combined, combined0, ok0, args0>>
    /\ UNCHANGED setVars

\* __add__(other)
Add(other) ==
    /\ pc = "built"
    /\ nops < MaxOps
    /\ adds' = Append(adds, other)
    /\ nops' = nops + 1
    /\ result' = Self
    /\ last' = [op |-> "add", arg |-> other]
    /\ UNCHANGED <<reals, ok, pc, ref, subs, combined, combined0, ok0, args0>>
    /\ UNCHANGED setVars

\* from_smry(column_keys)
FromSmry(column_keys) ==
    /\ pc = "built"
    /\ result' = [kind |-> "frame", column_keys |-> column_keys,
                  frame |-> from_smry(column_keys)]
    /\ last' = [op |-> "from_smry", arg |-> None]
    /\ UNCHANGED <<reals, ok, pc, ref, adds, subs, combined, nops,
                   combined0, ok0, args0>>
    /\ UNCHANGED setVars

\* A constituent ensemble's data changes after the combination was built:
\* realization r of ensemble e gains or loses its OK flag.
SetOk(e, r) ==
    /\ pc = "built"
    /\ nops < MaxOps
    /\ r \in reals[e]
    /\ ok' = [ok EXCEPT ![e] = IF r \in ok[e] THEN ok[e] \ {r}
                               ELSE ok[e] \cup {r}]
    /\ nops' = nops + 1
    /\ result' = NoResult
    /\ last' = [op |-> "set_ok", arg |-> e]
    /\ UNCHANGED <<reals, pc, ref, adds, subs, combined, combined0, ok0, args0>>
    /\ UNCHANGED setVars

ColumnKeyChoices == {<<>>, <<"FOPT">>}

\* The realization sets the ensembles can hold.
RealSets == {{0, 1}, {1}}

\* No EnsembleSet in the session.
SetIdle ==
    /\ spc = "new"
    /\ ensembles = <<>>
    /\ sresult = [kind |-> "none", val |-> <<>>, type |-> "", msg |-> <<>>]
    /\ slast = [op |-> "none", arg |-> <<>>]
    /\ snops = 0

Init ==
    /\ reals \in [Ens -> RealSets]
    /\ ok \in [Ens -> SUBSET Reals]
    /\ \A e \in Ens : ok[e] \subseteq reals[e]
    /\ pc = "new"
    /\ ref = None
    /\ adds = <<>>
    /\ subs = <<>>
    /\ combined = {}
    /\ result = NoResult
    /\ last = NoCall
    /\ nops = 0
    /\ combined0 = {}
    /\ ok0 = {}
    /\ args0 = [ref |-> None, adds |-> None, subs |-> None]
    /\ SetIdle

Next ==
    \/ \E r \in Ens : \E a, s \in Ens \cup {None} : Construct(r, a, s)
    \/ \E e \in Ens : Sub(e)
    \/ \E e \in Ens : Add(e)
    \/ \E ck \in ColumnKeyChoices : FromSmry(ck)

Spec == Init /\ [][Next]_vars

\* The same object in a session where the ensembles' status can change.
NextEnv ==
    \/ Next
    \/ \E e \in Ens : \E r \in Reals : SetOk(e, r)

SpecEnv == Init /\ [][NextEnv]_vars

(***************************************************************************)
(* Part II.  EnsembleSet                                                   *)
(***************************************************************************)

\* ---- paths, as sequences of the pieces the code looks at

Digits == <<"0", "1", "2", "3", "4", "5", "6", "7", "8", "9">>
IsDigit(t) == \E i \in 1..10 : Digits[i] = t
DigitVal(t) == (CHOOSE i \in 1..10 : Digits[i] = t) - 1

\* int(digits)
RECURSIVE ParseInt(_)
ParseInt(ds) ==
    IF ds = <<>> THEN 0
    ELSE 10 * ParseInt(SubSeq(ds, 1, Len(ds) - 1)) + DigitVal(ds[Len(ds)])

\* str(n), n >= 0
RECURSIVE Str(_)
Str(n) ==
    IF n < 10 THEN <<Digits[n + 1]>>
    ELSE Str(n \div 10) \o <<Digits[(n % 10) + 1]>>

\* The concrete paths a glob can match on the disk modelled.
P1 == <<"/", "data", "/", "realization-", "0", "/", "iter-", "1">>
P2 == <<"/", "data", "/", "realization-", "0", "/", "iter-", "1", "0">>
P3 == <<"/", "data", "/", "realization-", "3", "/", "iter-", "2">>
P4 == <<"/", "data", "/", "realization-", "1">>
P5 == <<"/", "data", "/", "realization-", "1", "/", "iter-", "2">>
Paths == {P1, P2, P3, P4, P5}

\* Calendar dates <<year, month, day>>.
D_1999_12_15 == <<1999, 12, 15>>
D_2000_01_01 == <<2000, 1, 1>>
D_2000_01_15 == <<2000, 1, 15>>
D_2000_01_20 == <<2000, 1, 20>>
D_2000_02_29 == <<2000, 2, 29>>
D_2000_03_01 == <<2000, 3, 1>>

\* The report dates found on disk in each realization directory.
DiskDates(p) ==
    CASE p = P1 -> {D_2000_01_15, D_2000_03_01}
      [] p = P2 -> {D_1999_12_15}
      [] p = P3 -> {D_2000_01_15, D_2000_01_20}
      [] p = P4 -> {}
      [] p = P5 -> {D_2000_01_01, D_2000_02_29}
      [] OTHER -> {}

\* Whether a realization directory holds a parameters.txt / the CSV file.
DiskHasTable(p) == p # P4

\* the maximal run of digits of path starting at position k
RECURSIVE DigitRun(_, _)
DigitRun(path, k) ==
    IF k <= Len(path) /\ IsDigit(path[k])
    THEN <<path[k]>> \o DigitRun(path, k + 1)
    ELSE <<>>

\* re.match(r'.*<marker>(\d+).*', path): the positions where the marker is
\* followed by a digit; the greedy leading .* settles on the last of them.
MarkerAt(path, marker) ==
    {k \in 1..(Len(path) - 1) : path[k] = marker /\ IsDigit(path[k + 1])}

Max(S) == CHOOSE x \in S : \A y \in S : y <= x

HasMatch(path, marker) == MarkerAt(path, marker) # {}

\* int(match.group(1))
MatchIndex(path, marker) ==
    ParseInt(DigitRun(path, Max(MarkerAt(path, marker)) + 1))

\* needle in path
Contains(path, needle) ==
    \E k \in 1..(Len(path) - Len(needle) + 1) :
        SubSeq(path, k, k + Len(needle) - 1) = needle

\* ---- ensembles

\* ScratchEnsemble(name, paths)
ScratchEnsemble(name, paths) == [name |-> name, members |-> paths]

\* The ensembles a caller can hand to __init__ and add_ensemble.
GivenEnsembles ==
    { ScratchEnsemble(<<"a">>, {P1}),
      ScratchEnsemble(<<"a">>, {P3, P4}),
      ScratchEnsemble(<<"b">>, {P4}),
      ScratchEnsemble(<<"iter-", "1">>, {P5}) }

\* Ensemble.get_smry_dates(freq='report'): the union over its realizations.
EnsReportDates(e) == UNION {DiskDates(p) : p \in e.members}

\* Ensemble.get_parameters(convert_numeric): one row per realization that
\* has parameters.
EnsGetParameters(e, convert_numeric) ==
    {[REAL |-> p, numeric |-> convert_numeric] :
        p \in {q \in e.members : DiskHasTable(q)}}

\* Ensemble.get_csv(filename): one row per realization that has the file.
EnsGetCsv(e, filename) ==
    {[REAL |-> p, file |-> filename] :
        p \in {q \in e.members : DiskHasTable(q)}}

\* Ensemble.get_smry(time_index, column_keys, stacked=True): one row per
\* realization with summary data and date; time_index <<>> stands for None
\* (the realization's own report dates).
EnsGetSmry(e, time_index, column_keys) ==
    UNION {{[REAL |-> p, DATE |-> d, keys |-> column_keys] :
              d \in (IF time_index = <<>> THEN DiskDates(p)
                     ELSE {time_index[i] : i \in DOMAIN time_index})} :
           p \in {q \in e.members : DiskDates(q) # {}}}

\* ---- dates

DateLT(a, b) ==
    \/ a[1] < b[1]
    \/ a[1] = b[1] /\ a[2] < b[2]
    \/ a[1] = b[1] /\ a[2] = b[2] /\ a[3] < b[3]

DateLE(a, b) == a = b \/ DateLT(a, b)

IsLeap(y) == (y % 4 = 0 /\ y % 100 # 0) \/ y % 400 = 0

DaysInMonth(y, m) ==
    IF m = 2 THEN (IF IsLeap(y) THEN 29 ELSE 28)
    ELSE IF m \in {4, 6, 9, 11} THEN 30 ELSE 31

NextDay(d) ==
    IF d[3] < DaysInMonth(d[1], d[2]) THEN <<d[1], d[2], d[3] + 1>>
    ELSE IF d[2] < 12 THEN <<d[1], d[2] + 1, 1>>
    ELSE <<d[1] + 1, 1, 1>>

\* the first day of the month after d's
NextMonthStart(d) ==
    IF d[2] < 12 THEN <<d[1], d[2] + 1, 1>> ELSE <<d[1] + 1, 1, 1>>

NextYearStart(d) == <<d[1] + 1, 1, 1>>

\* The first point of a frequency at or after start.
FirstPoint(start, pdfreq) ==
    CASE pdfreq = "D" -> start
      [] pdfreq = "MS" -> IF start[3] = 1 THEN start ELSE NextMonthStart(start)
      [] OTHER -> IF start[2] = 1 /\ start[3] = 1 THEN start
                  ELSE NextYearStart(start)

NextPoint(d, pdfreq) ==
    CASE pdfreq = "D" -> NextDay(d)
      [] pdfreq = "MS" -> NextMonthStart(d)
      [] OTHER -> NextYearStart(d)

RECURSIVE RangeFrom(_, _, _)
RangeFrom(cur, end, pdfreq) ==
    IF DateLE(cur, end)
    THEN <<cur>> \o RangeFrom(NextPoint(cur, pdfreq), end, pdfreq)
    ELSE <<>>

\* pd.date_range(start_date, end_date, freq=pdfreq), as datetime.date
date_range(start, end, pdfreq) ==
    RangeFrom(FirstPoint(start, pdfreq), end, pdfreq)

\* list(rawdates): the elements of a set in some order
RECURSIVE SetToList(_)
SetToList(S) ==
    IF S = {} THEN <<>>
    ELSE LET x == CHOOSE y \in S : TRUE
         IN <<x>> \o SetToList(S \ {x})

\* list.sort() on dates
RECURSIVE InsertDate(_, _)
InsertDate(sorted, x) ==
    IF sorted = <<>> THEN <<x>>
    ELSE IF DateLE(x, Head(sorted)) THEN <<x>> \o sorted
    ELSE <<Head(sorted)>> \o InsertDate(Tail(sorted), x)

RECURSIVE SortDates(_)
SortDates(list) ==
    IF list = <<>> THEN <<>>
    ELSE InsertDate(SortDates(Tail(list)), Head(list))

\* ---- results of a call

ReturnsNone == [kind |-> "none", val |-> <<>>, type |-> "", msg |-> <<>>]
Returns(v) == [kind |-> "value", val |-> v, type |-> "", msg |-> <<>>]
Raises(type, msg) == [kind |-> "error", val |-> <<>>, type |-> type, msg |-> msg]

\* pd_freq_mnenomics
PdFreq(freq) ==
    CASE freq = "monthly" -> "MS"
      [] freq = "yearly" -> "YS"
      [] freq = "daily" -> "D"
      [] OTHER -> ""

\* rawdates built from one ensemble only: the loop assigns instead of uniting
RawDatesOverwrite(ensmap) ==
    IF DOMAIN ensmap = {} THEN {}
    ELSE EnsReportDates(ensmap[CHOOSE n \in DOMAIN ensmap : TRUE])

\* rawdates: the union of every ensemble's report dates
RawDates(ensmap) == UNION {EnsReportDates(ensmap[n]) : n \in DOMAIN ensmap}

\* EnsembleSet.get_smry_dates(freq) on the mapping ensmap
get_smry_dates(ensmap, freq) ==
    LET rawdates == SortDates(SetToList(RawDates(ensmap)))
    IN IF freq = "report" THEN Returns(rawdates)
       ELSE IF rawdates = <<>>
            THEN Raises("ValueError", <<"min() arg is an empty sequence">>)
       ELSE IF PdFreq(freq) = ""
            THEN Raises("ValueError",
                        <<"Requested frequency ", freq, " not supported">>)
       ELSE Returns(date_range(rawdates[1], rawdates[Len(rawdates)],
                               PdFreq(freq)))

\* pd.concat(dflist), the frames as sets of rows
Concat(frames) ==
    IF frames = {} THEN Raises("ValueError", <<"No objects to concatenate">>)
    ELSE Returns(UNION frames)

\* frame with the column ENSEMBLE set to name
Tag(frame, name) ==
    {[ENSEMBLE |-> name, row |-> r] : r \in frame}

\* EnsembleSet.get_parameters(convert_numeric)
get_parameters(ensmap, convert_numeric) ==
    Concat({Tag(EnsGetParameters(ensmap[n], convert_numeric), ensmap[n].name) :
              n \in DOMAIN ensmap})

\* EnsembleSet.get_csv(filename)
get_csv(ensmap, filename) ==
    Concat({Tag(EnsGetCsv(ensmap[n], filename), ensmap[n].name) :
              n \in DOMAIN ensmap})

\* EnsembleSet.get_smry(time_index, column_keys); a time_index is a record:
\* str says whether it is a string, key is the string, dates the list, with
\* <<>> for None.
get_smry(ensmap, time_index, column_keys) ==
    LET dates == IF time_index.str THEN get_smry_dates(ensmap, time_index.key)
                 ELSE Returns(time_index.dates)
    IN IF dates.kind = "error" THEN dates
       ELSE Concat({Tag(EnsGetSmry(ensmap[n], dates.val, column_keys), n) :
                      n \in DOMAIN ensmap})

\* self._ensembles[name] = ens
Put(ensmap, ens) ==
    [n \in (DOMAIN ensmap) \cup {ens.name} |->
        IF n = ens.name THEN ens ELSE ensmap[n]]

\* for ensemble in ensembles: self._ensembles[ensemble.name] = ensemble
RECURSIVE PutAll(_, _)
PutAll(ensmap, list) ==
    IF list = <<>> THEN ensmap
    ELSE PutAll(Put(ensmap, Head(list)), Tail(list))

\* the iters collected from the globbed paths
ItersOf(globbedpaths) ==
    {MatchIndex(p, "iter-") : p \in {q \in globbedpaths : HasMatch(q, "iter-")}}

\* the reals collected from the globbed paths
RealsOf(globbedpaths) ==
    {MatchIndex(p, "realization-") :
        p \in {q \in globbedpaths : HasMatch(q, "realization-")}}

\* the ensemble built for iteration iterr
IterEnsemble(globbedpaths, iterr) ==
    ScratchEnsemble(<<"iter-">> \o Str(iterr),
                    {x \in globbedpaths : Contains(x, <<"iter-">> \o Str(iterr))})

\* the loop "for iterr in iters": each ensemble is put under its name
RECURSIVE PutIters(_, _, _)
PutIters(ensmap, globbedpaths, iters) ==
    IF iters = {} THEN ensmap
    ELSE LET i == CHOOSE x \in iters : TRUE
         IN PutIters(Put(ensmap, IterEnsemble(globbedpaths, i)),
                     globbedpaths, iters \ {i})

Frequencies == {"report", "daily", "monthly", "yearly", "weekly"}

\* time_index arguments of get_smry tried
TimeIndexChoices ==
    { [str |-> FALSE, key |-> "", dates |-> <<>>],
      [str |-> FALSE, key |-> "", dates |-> <<D_2000_01_01, D_2000_03_01>>],
      [str |-> TRUE, key |-> "monthly", dates |-> <<>>],
      [str |-> TRUE, key |-> "weekly", dates |-> <<>>] }

\* EnsembleSet.__init__(name, ensembles)
SetConstruct(list) ==
    /\ spc = "new"
    /\ spc' = "built"
    /\ ensembles' = PutAll(<<>>, list)
    /\ sresult' = ReturnsNone
    /\ slast' = [op |-> "init", arg |-> list]
    /\ UNCHANGED snops
    /\ UNCHANGED combVars

\* add_ensemble(ensembleobject)
AddEnsemble(e) ==
    /\ spc = "built"
    /\ snops < MaxSetOps
    /\ ensembles' = Put(ensembles, e)
    /\ sresult' = ReturnsNone
    /\ slast' = [op |-> "add_ensemble", arg |-> e]
    /\ snops' = snops + 1
    /\ UNCHANGED spc
    /\ UNCHANGED combVars

\* add_ensembles_frompath(paths), globbedpaths being what the globs match
AddEnsemblesFromPath(globbedpaths) ==
    /\ spc = "built"
    /\ snops < MaxSetOps
    /\ ensembles' = PutIters(ensembles, globbedpaths, ItersOf(globbedpaths))
    /\ sresult' = ReturnsNone
    /\ slast' = [op |-> "add_ensembles_frompath", arg |-> globbedpaths]
    /\ snops' = snops + 1
    /\ UNCHANGED spc
    /\ UNCHANGED combVars

\* get_smry_dates(freq)
GetSmryDates(freq) ==
    /\ spc = "built"
    /\ sresult' = get_smry_dates(ensembles, freq)
    /\ slast' = [op |-> "get_smry_dates", arg |-> freq]
    /\ UNCHANGED <<spc, ensembles, snops>>
    /\ UNCHANGED combVars

\* get_parameters(convert_numeric)
GetParameters(convert_numeric) ==
    /\ spc = "built"
    /\ sresult' = get_parameters(ensembles, convert_numeric)
    /\ slast' = [op |-> "get_parameters", arg |-> convert_numeric]
    /\ UNCHANGED <<spc, ensembles, snops>>
    /\ UNCHANGED combVars

\* the parameters property: get_parameters(self), self being truthy when
\* len(self) is not 0
Parameters ==
    /\ spc = "built"
    /\ sresult' = get_parameters(ensembles, DOMAIN ensembles # {})
    /\ slast' = [op |-> "parameters", arg |-> <<>>]
    /\ UNCHANGED <<spc, ensembles, snops>>
    /\ UNCHANGED combVars

\* get_csv(filename)
GetCsv(filename) ==
    /\ spc = "built"
    /\ sresult' = get_csv(ensembles, filename)
    /\ slast' = [op |-> "get_csv", arg |-> filename]
    /\ UNCHANGED <<spc, ensembles, snops>>
    /\ UNCHANGED combVars

\* get_smry(time_index, column_keys)
GetSmry(time_index, column_keys) ==
    /\ spc = "built"
    /\ sresult' = get_smry(ensembles, time_index, column_keys)
    /\ slast' = [op |-> "get_smry", arg |-> time_index]
    /\ UNCHANGED <<spc, ensembles, snops>>
    /\ UNCHANGED combVars

\* No EnsembleCombination in the session.
CombIdle ==
    /\ reals = [e \in Ens |-> Reals]
    /\ ok = [e \in Ens |-> Reals]
    /\ pc = "new"
    /\ ref = None
    /\ adds = <<>>
    /\ subs = <<>>
    /\ combined = {}
    /\ result = NoResult
    /\ last = NoCall
    /\ nops = 0
    /\ combined0 = {}
    /\ ok0 = {}
    /\ args0 = [ref |-> None, adds |-> None, subs |-> None]

InitSet == CombIdle /\ SetIdle

\* The lists of ensembles __init__ is called with: up to two ensembles.
GivenLists ==
    {<<>>} \cup {<<e>> : e \in GivenEnsembles}
           \cup {<<e, f>> : e \in GivenEnsembles, f \in GivenEnsembles}

NextSet ==
    \/ \E list \in GivenLists : SetConstruct(list)
    \/ \E e \in GivenEnsembles : AddEnsemble(e)
    \/ \E g \in SUBSET Paths : AddEnsemblesFromPath(g)
    \/ \E f \in Frequencies : GetSmryDates(f)
    \/ \E b \in BOOLEAN : GetParameters(b)
    \/ Parameters
    \/ GetCsv("params.csv")
    \/ \E t \in TimeIndexChoices : GetSmry(t, <<>>)

SpecSet == InitSet /\ [][NextSet]_vars

(***************************************************************************)
(* Properties of EnsembleCombination                                       *)
(***************************************************************************)

\* The ensembles taking part in the combination now.
Participants == {ref} \cup {adds[i] : i \in DOMAIN adds}
                      \cup {subs[i] : i \in DOMAIN subs}

\* C1: every row from_smry returns carries a realization that is OK in the
\* reference and in every ensemble now in the add and subtract lists,
\* those appended by + and - after construction included.
C1_RowsOkInEveryParticipant ==
    result.kind = "frame" =>
        \A i \in DOMAIN result.frame :
            ~result.frame[i]["REAL"].nan =>
                \A e \in Participants : result.frame[i]["REAL"].v \in ok[e]

\* The OK set of a constructor argument; None restricts nothing.
ArgOk(x) == IF x = None THEN Reals ELSE ok[x]

C3_CombinedWithinRefOk ==
    pc = "built" => combined \subseteq ok[ref]

\* C3 amended: the combined set is within the OK set the reference had
\* when the combination was constructed.
C3_CombinedWithinRefOkAtConstruction ==
    pc = "built" => combined \subseteq ok0

\* C3 witness: the reference's status changed after construction, terms
\* were registered, and the combined set is no longer within the
\* reference's OK set.
C3_Witness ==
    /\ pc = "built"
    /\ ok[ref] # ok0
    /\ subs # <<>>
    /\ combined # {}
    /\ ~(combined \subseteq ok[ref])

\* The fold from_smry is to compute, cell by cell: for each subtract term in
\* order acc = S - acc, then for each add term in order acc = A + acc.
RECURSIVE ExpectSubs(_, _, _, _, _)
ExpectSubs(acc, list, r, d, c) ==
    IF list = <<>> THEN acc
    ELSE ExpectSubs(SmryValue(Head(list), r, d, c) - acc, Tail(list), r, d, c)

RECURSIVE ExpectAdds(_, _, _, _, _)
ExpectAdds(acc, list, r, d, c) ==
    IF list = <<>> THEN acc
    ELSE ExpectAdds(SmryValue(Head(list), r, d, c) + acc, Tail(list), r, d, c)

Expected(r, d, c) ==
    ExpectAdds(ExpectSubs(SmryValue(ref, r, d, c), subs, r, d, c),
               adds, r, d, c)

\* The reference's stacked table restricted to the combined set.
FilteredRef(column_keys) ==
    FilterReal(EnsFromSmry(ref, EnsDailyDates(ref), column_keys), combined)

\* The frame returned has exactly the rows of the filtered reference table,
\* with its DATE and REAL, and the fold in every value column.
FoldHolds ==
    LET F == result.frame
        R == FilteredRef(result.column_keys)
    IN /\ DOMAIN F = DOMAIN R
       /\ \A i \in DOMAIN F :
            /\ i \in DOMAIN R
            /\ F[i]["DATE"] = R[i]["DATE"]
            /\ F[i]["REAL"] = R[i]["REAL"]
            /\ \A c \in SelectedCols(result.column_keys) :
                 F[i][c] = Num(Expected(R[i]["REAL"].v, R[i]["DATE"].v, c))

\* The (REAL, DATE) key of every row of a stacked table, by label.
RowKeys(frame) == [i \in DOMAIN frame |-> <<frame[i]["REAL"], frame[i]["DATE"]>>]

\* Every term's stacked table lists the same (REAL, DATE) rows under the
\* same labels as the reference's.
TermsAligned ==
    \A e \in Participants :
        RowKeys(EnsFromSmry(e, EnsDailyDates(ref), <<>>))
            = RowKeys(EnsFromSmry(ref, EnsDailyDates(ref), <<>>))

C5_CombinedFixedAtConstruction ==
    [][ /\ (last'.op = "sub" =>
              /\ subs' = Append(subs, last'.arg)
              /\ adds' = adds /\ ref' = ref /\ combined' = combined
              /\ result' = Self)
        /\ (last'.op = "add" =>
              /\ adds' = Append(adds, last'.arg)
              /\ subs' = subs /\ ref' = ref /\ combined' = combined
              /\ result' = Self)
        /\ (last'.op = "from_smry" =>
              /\ adds' = adds /\ subs' = subs /\ ref' = ref
              /\ combined' = combined)
        /\ (pc' = "built" => combined' = combined0') ]_vars

\* C5 witness: two operator applications and an evaluation later, the
\* combined set differs from what find_combined would give now.
C5_Witness ==
    /\ pc = "built"
    /\ nops >= 2
    /\ result.kind = "frame"
    /\ Len(subs) >= 1
    /\ Len(adds) >= 1
    /\ combined = combined0
    /\ combined # find_combined(ref, adds, subs)

(***************************************************************************)
(* Properties of EnsembleSet                                               *)
(***************************************************************************)

Recognized == {"report", "daily", "monthly", "yearly"}

MinDate(S) == CHOOSE x \in S : \A y \in S : DateLE(x, y)
MaxDate(S) == CHOOSE x \in S : \A y \in S : DateLE(y, x)
MonthStart(d) == <<d[1], d[2], 1>>

\* The report dates of every realization of every member ensemble.
AllReportDates ==
    UNION {UNION {DiskDates(p) : p \in ensembles[n].members} :
             n \in DOMAIN ensembles}

StrictlyIncreasing(seq) ==
    \A i \in 1..(Len(seq) - 1) : DateLT(seq[i], seq[i + 1])

Elements(seq) == {seq[i] : i \in DOMAIN seq}

\* C6: with raw report dates present, get_smry_dates('monthly') returns
\* month starts, each one calendar month after the one before, beginning at
\* or before the month start of the earliest raw date and ending at or after
\* the month start of the latest.
C6_MonthlyCoversRawRange ==
    (slast.op = "get_smry_dates" /\ slast.arg = "monthly"
        /\ AllReportDates # {}) =>
        /\ sresult.kind = "value"
        /\ Len(sresult.val) >= 1
        /\ StrictlyIncreasing(sresult.val)
        /\ \A i \in DOMAIN sresult.val : sresult.val[i][3] = 1
        /\ \A i \in 1..(Len(sresult.val) - 1) :
              sresult.val[i + 1] = NextMonthStart(sresult.val[i])
        /\ DateLE(sresult.val[1], MonthStart(MinDate(AllReportDates)))
        /\ DateLE(MonthStart(MaxDate(AllReportDates)),
                  sresult.val[Len(sresult.val)])

IterName(i) == <<"iter-">> \o Str(i)

\* C7: after add_ensembles_frompath over the matched paths, each iteration
\* index i found maps iter-<i> to an ensemble whose members are exactly the
\* matched paths whose iteration marker has index i; a path without a marker
\* is a member of none of them.
C7_MembersByIterationIndex ==
    slast.op = "add_ensembles_frompath" =>
        /\ \A p \in slast.arg :
              HasMatch(p, "iter-") =>
                 LET i == MatchIndex(p, "iter-")
                 IN /\ IterName(i) \in DOMAIN ensembles
                    /\ ensembles[IterName(i)].name = IterName(i)
                    /\ ensembles[IterName(i)].members =
                          {q \in slast.arg : /\ HasMatch(q, "iter-")
                                             /\ MatchIndex(q, "iter-") = i}
        /\ \A p \in slast.arg :
              ~HasMatch(p, "iter-") =>
                 \A i \in ItersOf(slast.arg) :
                    p \notin ensembles[IterName(i)].members

\* C8: get_smry_dates with a frequency other than report, daily, monthly
\* and yearly raises an invalid-argument error naming that frequency, on any
\* ensemble set, with or without raw dates.
C8_UnrecognizedFrequencyNamed ==
    (slast.op = "get_smry_dates" /\ slast.arg \notin Recognized) =>
        /\ sresult.kind = "error"
        /\ sresult.type = "ValueError"
        /\ \E i \in DOMAIN sresult.msg : sresult.msg[i] = slast.arg

\* C9: get_parameters, get_csv, get_smry and get_smry_dates raise nothing
\* unless given an unrecognized frequency keyword, on any ensemble set, an
\* empty one included.
C9_OnlyBadFrequencyRaises ==
    (\/ slast.op \in {"get_parameters", "get_csv"}
     \/ (slast.op = "get_smry"
           /\ (slast.arg.str => slast.arg.key \in Recognized))
     \/ (slast.op = "get_smry_dates" /\ slast.arg \in Recognized)) =>
        sresult.kind # "error"

\* The mapping without the ensemble named n.
Without(ensmap, n) == [m \in (DOMAIN ensmap) \ {n} |-> ensmap[m]]

\* C10: get_smry_dates('report') returns the strictly increasing sequence of
\* exactly the report dates of the member ensembles; the result for the set
\* with any one ensemble removed is a subset of it.
C10_ReportIsSortedUnion ==
    (slast.op = "get_smry_dates" /\ slast.arg = "report") =>
        /\ sresult.kind = "value"
        /\ StrictlyIncreasing(sresult.val)
        /\ Elements(sresult.val) = AllReportDates
        /\ \A n \in DOMAIN ensembles :
              Elements(get_smry_dates(Without(ensembles, n), "report").val)
                 \subseteq Elements(sresult.val)

\* C10 witness: a report request on a set of two or more ensembles, two of
\* which share a report date, with three or more dates in the result.
C10_Witness ==
    /\ slast.op = "get_smry_dates"
    /\ slast.arg = "report"
    /\ sresult.kind = "value"
    /\ Len(sresult.val) >= 3
    /\ \E n, m \in DOMAIN ensembles :
          /\ n # m
          /\ EnsReportDates(ensembles[n]) \cap EnsReportDates(ensembles[m]) # {}
          /\ EnsReportDates(ensembles[n]) # EnsReportDates(ensembles[m])

=============================================================================
